---- MODULE Spec2Model ----
(***************************************************************************)
(* A model of coman: the event manager (event_manager.py), the queue       *)
(* draining helper (util.py), the time tracker (time_tracker.py) and the   *)
(* coroutine manager (coroutine_manager.py).                               *)
(*                                                                         *)
(* Every public operation is one action.  An operation that calls          *)
(* subscribers runs them to the end inside the action: the callbacks'      *)
(* bodies are interpreted by the recursive operators below on a machine    *)
(* record, so that reentrant calls (a subscriber that subscribes, raises   *)
(* or resumes) happen exactly where the Python call stack has them.        *)
(***************************************************************************)
EXTENDS Integers, Sequences, FiniteSets, TLC

VARIABLES
    subscriptions,       \* EventManager._subscriptions: event -> deque of subscribers
    multisubscriptions,  \* EventManager._multisubscriptions: list of (selector, subscriber)
    counter,             \* EventManager._counter: next nonce of unique_event
    elapsed_time,        \* TimeTracker._elapsed_time
    delayed_events,      \* CoroutineManager._delayed_events: heapq array of (deadline, event)
    coros,               \* the coroutine objects: program position of every task
    gathers,             \* the locals of each task's gather call
    time_points,         \* the FutureTimePoint objects the client holds
    last                 \* the last call made by the client and what it was seen to do

vars == <<subscriptions, multisubscriptions, counter, elapsed_time,
          delayed_events, coros, gathers, time_points, last>>

(***************************************************************************)
(* Bounds of the model.                                                    *)
(***************************************************************************)
MaxRegs == 3      \* registrations the client makes while the bus holds fewer
MaxTime == 4      \* the client stops advancing the clock here
MaxDelay == 2     \* largest delay / delta the client passes
MaxHeap == 3      \* delayed events the client adds while the heap holds fewer
MaxNonce == 5     \* the client calls unique_event while the counter is below
MaxPoints == 2    \* time points the client asks for and keeps

\* a drain that takes new elements too and has made this many calls without
\* emptying the deque is one that does not end: no drain that ends makes as
\* many (every element of the client's adds at most two more after it)
MaxCalls == 3 * MaxRegs + 1

(***************************************************************************)
(* Events.  An application event is a string; a unique event carries a     *)
(* nonce.  Both are records of one shape so that they can share a queue.   *)
(***************************************************************************)
Ev(s) == [tag |-> "app", name |-> s, nonce |-> 0]

UniqueEvent(n) == [tag |-> "unique", name |-> "", nonce |-> n]

\* the `event` argument of the subscriber being run
SelfEv == [tag |-> "self", name |-> "", nonce |-> 0]

None == [tag |-> "none", name |-> "", nonce |-> 0]

AppEvents == {Ev("a"), Ev("b")}

(***************************************************************************)
(* The client's subscribers.  A subscriber is named by a string; Body      *)
(* gives the calls its body makes, in order.  foo, bar and baz only record *)
(* that they were called; quux subscribes baz to the event 42 whatever     *)
(* event it is called for, sub_baz subscribes baz to the event it is       *)
(* called for, and the others call back into the event manager while it    *)
(* is dispatching.                                                         *)
(***************************************************************************)
Op(o, e, c, s) == [op |-> o, ev |-> e, cb |-> c, sel |-> s, delay |-> 0]

\* the tasks that call gather, and the name of the increase_completed
\* closure of each one's gather call
Gatherers == {"g", "g_s", "o", "h", "g_e", "g_0", "g_1"}

IncreaseCompleted(coro) ==
    CASE coro = "g" -> "g.increase_completed"
      [] coro = "g_s" -> "g_s.increase_completed"
      [] coro = "o" -> "o.increase_completed"
      [] coro = "h" -> "h.increase_completed"
      [] coro = "g_e" -> "g_e.increase_completed"
      [] coro = "g_0" -> "g_0.increase_completed"
      [] coro = "g_1" -> "g_1.increase_completed"

Body(cb) ==
    CASE cb = "foo" -> <<>>
      [] cb = "bar" -> <<>>
      [] cb = "baz" -> <<>>
      [] cb = "quux" -> << Op("subscribe", Ev("42"), "baz", {}) >>
      [] cb = "sub_baz" -> << Op("subscribe", SelfEv, "baz", {}) >>
      [] cb = "chain" -> << Op("subscribe", SelfEv, "quux", {}) >>
      [] cb = "again" -> << Op("subscribe", SelfEv, "again", {}) >>
      [] cb = "fail" -> << Op("throw", None, "", {}) >>
      [] cb = "reraise" -> << Op("raise_event", SelfEv, "", {}) >>
      [] cb = "raise_sub" -> << Op("raise_event", SelfEv, "", {}),
                                Op("subscribe", SelfEv, "baz", {}) >>
      [] cb = "raise_b" -> << Op("raise_event", Ev("b"), "", {}) >>
      [] cb = "msub" -> << Op("multisubscribe", None, "baz", AppEvents) >>
      [] cb = "add_a" -> << Op("add_delayed_event", Ev("a"), "", {}) >>
      [] cb = "tick" -> << Op("update", None, "", {}) >>
      [] cb \in {IncreaseCompleted(g) : g \in Gatherers} ->
             << Op("increase_completed", None, cb, {}) >>
      [] OTHER -> << Op("resume", None, cb, {}) >>

Plain(cb) == Body(cb) = <<>>

(***************************************************************************)
(* The machine the operations run on: the objects' fields, the deque       *)
(* objects (a generation per event: an entry that is deleted and created   *)
(* again is another object), and what was observed.                        *)
(***************************************************************************)
LogRec(t, c, cb, e, q, ms) ==
    [t |-> t, call |-> c, cb |-> cb, ev |-> e, q |-> q, ms |-> ms, at |-> 0]

\* a note about the clock, the heap or a task: `at` is a time or a position
TimeRec(t, cb, e, q, at) ==
    [t |-> t, call |-> 0, cb |-> cb, ev |-> e, q |-> q, ms |-> <<>>, at |-> at]

Note(m, rec) == [m EXCEPT !.log = Append(@, rec)]

Throw(m, what) == [m EXCEPT !.exc = what]

\* the deque object `obj` = <<event, generation>>
Deque(m, obj) == m.store[obj[1]][obj[2]]

\* self._subscriptions.get(event): the deque of the event as the dict has it
Current(m, event) ==
    IF event \in DOMAIN m.subs THEN m.store[event][m.subs[event]] ELSE <<>>

\* subscribe that puts the subscriber at the front (appendleft for append)
subscribe_appendleft(m, event, subscriber) ==
    LET m1 == IF event \in DOMAIN m.subs THEN m
              ELSE IF event \in DOMAIN m.store
                   THEN [m EXCEPT !.store[event] = Append(@, <<>>),
                                  !.subs = @ @@ (event :> Len(m.store[event]) + 1)]
                   ELSE [m EXCEPT !.store = @ @@ (event :> << <<>> >>),
                                  !.subs = @ @@ (event :> 1)]
        m2 == [m1 EXCEPT !.store[event][m1.subs[event]] = <<subscriber>> \o @]
    IN  Note(m2, LogRec("subscribe", m.depth, subscriber, event, <<>>, <<>>))

subscribe(m, event, subscriber) ==
    LET m1 == IF event \in DOMAIN m.subs THEN m
              ELSE IF event \in DOMAIN m.store
                   THEN [m EXCEPT !.store[event] = Append(@, <<>>),
                                  !.subs = @ @@ (event :> Len(m.store[event]) + 1)]
                   ELSE [m EXCEPT !.store = @ @@ (event :> << <<>> >>),
                                  !.subs = @ @@ (event :> 1)]
        m2 == [m1 EXCEPT !.store[event][m1.subs[event]] = Append(@, subscriber)]
    IN  Note(m2, LogRec("subscribe", m.depth, subscriber, event, <<>>, <<>>))

\* UniqueEvent.__eq__, and the equality of strings
eq(self, other) ==
    IF self.tag = "unique"
    THEN other.tag = "unique" /\ self.nonce = other.nonce
    ELSE other.tag = self.tag /\ other.name = self.name

\* unique_event that does not increase the counter
unique_event_reused(m) ==
    Note(m, TimeRec("unique_event", "", UniqueEvent(m.counter), <<>>, m.counter))

\* EventManager.unique_event; the event returned is noted
unique_event(m) ==
    Note([m EXCEPT !.counter = @ + 1],
         TimeRec("unique_event", "", UniqueEvent(m.counter), <<>>, m.counter))

multisubscribe(m, selector, subscriber) ==
    LET entry == [sel |-> selector, cb |-> subscriber]
    IN  Note([m EXCEPT !.multi = Append(@, entry)],
             LogRec("multisubscribe", m.depth, subscriber, None, <<>>, <<entry>>))

(***************************************************************************)
(* The time tracker and the heap of delayed events.  An entry of the heap  *)
(* is the tuple (FutureTimePoint, event); heapq orders the entries with    *)
(* the tuples' `<`, which compares the events when the time points are     *)
(* equal.                                                                  *)
(***************************************************************************)
\* TimeTracker.update that sets the elapsed time to the delta
time_tracker_update_assign(m, time_delta) == [m EXCEPT !.elapsed = time_delta]

\* TimeTracker.update
time_tracker_update(m, time_delta) == [m EXCEPT !.elapsed = @ + time_delta]

\* TimeTracker.after
after(m, time_delta) == m.elapsed + time_delta

\* has_passed with `>` for `>=`: a deadline is missed at the exact time
has_passed_strict(m, time_point) == m.elapsed > time_point

\* FutureTimePoint.has_passed
has_passed(m, time_point) == m.elapsed >= time_point

\* str.__lt__ on the names of the application events
Rank(s) == CASE s = "a" -> 1 [] s = "b" -> 2 [] s = "c" -> 3 [] OTHER -> 0

\* event1 < event2: defined between two strings, a TypeError otherwise
\* (UniqueEvent defines __eq__ and __hash__, no ordering)
EventLess(e1, e2) ==
    IF e1.tag = "app" /\ e2.tag = "app"
    THEN IF Rank(e1.name) < Rank(e2.name) THEN "true" ELSE "false"
    ELSE "TypeError"

\* (time_point1, event1) < (time_point2, event2)
TupleLess(x, y) ==
    IF x.tp # y.tp THEN IF x.tp < y.tp THEN "true" ELSE "false"
    ELSE IF x.ev = y.ev THEN "false"
    ELSE EventLess(x.ev, y.ev)

Swap(heap, i, j) == [heap EXCEPT ![i] = heap[j], ![j] = heap[i]]

\* heapq._siftdown(heap, startpos, pos), positions counted from 1;
\* gives the heap and whether a comparison failed
RECURSIVE siftdown(_, _, _)
siftdown(heap, startpos, pos) ==
    IF pos <= startpos THEN [heap |-> heap, exc |-> "none"]
    ELSE LET parentpos == pos \div 2
             cmp == TupleLess(heap[pos], heap[parentpos])
         IN  IF cmp = "TypeError" THEN [heap |-> heap, exc |-> "TypeError"]
             ELSE IF cmp = "false" THEN [heap |-> heap, exc |-> "none"]
             ELSE siftdown(Swap(heap, pos, parentpos), startpos, parentpos)

\* heapq._siftup(heap, pos), positions counted from 1
RECURSIVE siftup(_, _, _)
siftup(heap, startpos, pos) ==
    LET endpos == Len(heap)
        left == 2 * pos
    IN  IF left > endpos THEN siftdown(heap, startpos, pos)
        ELSE LET cmp == IF left + 1 <= endpos
                        THEN TupleLess(heap[left], heap[left + 1])
                        ELSE "true"
                 childpos == IF cmp = "true" THEN left ELSE left + 1
             IN  IF cmp = "TypeError" THEN [heap |-> heap, exc |-> "TypeError"]
                 ELSE siftup(Swap(heap, pos, childpos), startpos, childpos)

\* heapq.heappush(heap, item)
heappush(heap, item) == siftdown(Append(heap, item), 1, Len(heap) + 1)

\* heapq.heappop(heap) on a heap that is not empty
heappop(heap) ==
    LET lastelt == heap[Len(heap)]
        rest == SubSeq(heap, 1, Len(heap) - 1)
    IN  IF rest = <<>> THEN [heap |-> rest, exc |-> "none"]
        ELSE siftup([rest EXCEPT ![1] = lastelt], 1, 1)

\* the heap after a heapq call, and the TypeError of a failed comparison
SetHeap(m, res) == [m EXCEPT !.heap = res.heap, !.exc = res.exc]

add_delayed_event(m, delay, event) ==
    SetHeap(Note(m, TimeRec("add_delayed_event", "", event, <<>>, after(m, delay))),
            heappush(m.heap, [tp |-> after(m, delay), ev |-> event]))

(***************************************************************************)
(* Tasks.  A task is an async function of the client; Program gives what   *)
(* its body does, and coros[t] is the position of its coroutine object: 0  *)
(* before it first runs, k while it is suspended in its k-th call, past    *)
(* the end when it has returned.                                           *)
(***************************************************************************)
Step(o, e, d) ==
    [op |-> o, ev |-> e, cb |-> "", sel |-> {}, delay |-> d, coroutines |-> <<>>]

\* await cm.gather([...]) on the coroutines of the named tasks
Gather(coroutines) ==
    [op |-> "gather", ev |-> None, cb |-> "", sel |-> {}, delay |-> 0,
     coroutines |-> coroutines]

\* what a task may pass to wait_for_event besides an event: a function
\* object (a predicate on events) and a list of events
Function(name) == [tag |-> "function", name |-> name, nonce |-> 0]

List(events) == [tag |-> "list", name |-> "", nonce |-> 0, events |-> events]

\* the events a predicate of the client returns True for
Accepts(f) ==
    CASE f.name = "is_a" -> {Ev("a")}
      [] f.name = "is_b" -> {Ev("b")}
      [] OTHER -> {}

Program(t) ==
    CASE t = "t_ab" -> << Step("wait_for_event", Ev("a"), 0),
                          Step("wait_for_event", Ev("b"), 0) >>
      [] t = "t_aa" -> << Step("wait_for_event", Ev("a"), 0),
                          Step("wait_for_event", Ev("a"), 0) >>
      [] t = "t_b" -> << Step("wait_for_event", Ev("b"), 0) >>
      [] t = "s1" -> << Step("sleep", None, 1) >>
      [] t = "s1x" -> << Step("sleep", None, 1) >>
      [] t = "s2" -> << Step("sleep", None, 2) >>
      [] t = "t_pred" -> << Step("wait_for_event", Function("is_a"), 0) >>
      [] t = "t_list" -> << Step("wait_for_event", List(AppEvents), 0) >>
      [] t = "l_s" -> << Step("wait_for_event", List({Ev("a")}), 0),
                         Step("sleep", None, 1) >>
      [] t = "g" -> << Gather(<<"t_ab", "t_b", "t_0">>),
                       Step("wait_for_event", Ev("a"), 0) >>
      [] t = "g_s" -> << Gather(<<"s2", "s1">>) >>
      [] t = "o" -> << Gather(<<"h">>) >>
      [] t = "h" -> << Gather(<<"t_aa">>) >>
      [] t = "g_e" -> << Gather(<<>>),
                         Step("wait_for_event", Ev("a"), 0),
                         Step("wait_for_event", Ev("b"), 0) >>
      [] t = "g_0" -> << Gather(<<"t_1", "t_2">>),
                         Step("wait_for_event", Ev("b"), 0) >>
      [] t = "g_1" -> << Gather(<<"t_b", "t_3">>),
                         Step("wait_for_event", Ev("a"), 0) >>
      [] OTHER -> <<>>

Done(t) == Len(Program(t)) + 1

RECURSIVE raise_event(_, _)
RECURSIVE consume_deque(_, _, _, _, _)
RECURSIVE MultiPass(_, _, _, _, _, _)
RECURSIVE Run(_, _, _)
RECURSIVE resume(_, _)
RECURSIVE Continue(_, _, _)
RECURSIVE StartAll(_, _, _)
RECURSIVE handle_delayed_events(_)
RECURSIVE update(_, _)

\* CoroutineManager.sleep up to its await: a unique event, scheduled
Sleep(m, duration) ==
    add_delayed_event([m EXCEPT !.counter = @ + 1], duration, UniqueEvent(m.counter))

\* isinstance(x, Event), Event being typing.Hashable: true of strings, of
\* unique events and of function objects, false of lists
Hashable(x) == x.tag # "list"

Callable(x) == x.tag = "function"

\* resume after coro.send: the resumer is registered for what was yielded
Register(m, coro, requested_event_selector) ==
    IF Hashable(requested_event_selector)
    THEN subscribe(m, requested_event_selector, coro)
    ELSE IF Callable(requested_event_selector)
    THEN multisubscribe(m, Accepts(requested_event_selector), coro)
    ELSE multisubscribe(m, requested_event_selector.events, coro)

\* resume that registers the resumer for every application event instead of
\* the event the task waits for
resume_any_event(m, coro) ==
    LET pc == m.coros[coro]
        k == pc + 1
    IN  IF m.exc # "none" THEN m
        ELSE IF pc >= Done(coro) THEN Throw(m, "RuntimeError")
        ELSE LET ran == Note(m, TimeRec("run", coro, None, <<>>, k))
             IN  IF k = Done(coro) THEN [ran EXCEPT !.coros[coro] = k]
                 ELSE multisubscribe([ran EXCEPT !.coros[coro] = k], AppEvents, coro)

\* the coroutine has yielded `event` in its k-th call (or an error has
\* ended it): resume registers the resumer
Suspend(m, coro, k, event) ==
    IF m.exc # "none" THEN [m EXCEPT !.coros[coro] = Done(coro)]
    ELSE Register([m EXCEPT !.coros[coro] = k], coro, event)

\* the segment of the body before the k-th call
Segment(m, coro, k) == Note(m, TimeRec("run", coro, None, <<>>, k))

\* the gather call that has the coroutine of task t among its coroutines
GatherOf(m, t) ==
    {g \in DOMAIN m.gath :
        \E i \in DOMAIN m.gath[g].coroutines : m.gath[g].coroutines[i] = t}

CompletionEvent(m, t) ==
    LET g == CHOOSE x \in GatherOf(m, t) : TRUE
        i == CHOOSE j \in DOMAIN m.gath[g].coroutines : m.gath[g].coroutines[j] = t
    IN  m.gath[g].completion_events[i]

\* the body has returned; `wrapped`, if gather started the task, raises the
\* completion event
Completed(m, coro) ==
    IF GatherOf(m, coro) = {} THEN m
    ELSE raise_event(m, CompletionEvent(m, coro))

\* increase_completed of the gather call of task `coro`
increase_completed(m, coro) == [m EXCEPT !.gath[coro].num_completed = @ + 1]

\* gather: the locals, a unique completion event for every coroutine
GatherLocals(m, coroutines) ==
    [num_total |-> Len(coroutines),
     num_completed |-> 0,
     completion_events |-> [i \in DOMAIN coroutines |-> UniqueEvent(m.counter + i - 1)],
     coroutines |-> coroutines]

\* gather: increase_completed is subscribed to every completion event
RECURSIVE SubscribeAll(_, _, _)
SubscribeAll(m, coro, i) ==
    IF i > m.gath[coro].num_total THEN m
    ELSE SubscribeAll(subscribe(m, m.gath[coro].completion_events[i],
                                IncreaseCompleted(coro)),
                      coro, i + 1)

\* CoroutineManager.start
start(m, coro) == resume([m EXCEPT !.coros = @ @@ (coro :> 0)], coro)

\* gather that starts the coroutines from the last to the first
StartAll_last_first(m, coro, i) ==
    IF m.exc # "none" \/ i > m.gath[coro].num_total THEN m
    ELSE StartAll(start(m, m.gath[coro].coroutines[m.gath[coro].num_total + 1 - i]),
                  coro, i + 1)

\* gather: the coroutines are wrapped and started, from the i-th on
StartAll(m, coro, i) ==
    IF m.exc # "none" \/ i > m.gath[coro].num_total THEN m
    ELSE StartAll(start(m, m.gath[coro].coroutines[i]), coro, i + 1)

\* gather up to its loop
GatherStart(m, coro, k) ==
    StartAll(
        SubscribeAll(
            Note([m EXCEPT !.counter = @ + Len(Program(coro)[k].coroutines),
                           !.gath = (coro :> GatherLocals(m, Program(coro)[k].coroutines)) @@ @],
                 TimeRec("gather", coro, None, <<>>, k)),
            coro, 1),
        coro, 1)

\* the loop of gather that leaves as soon as one coroutine has completed
GatherLoop_any(m, coro, k) ==
    IF m.exc # "none" THEN [m EXCEPT !.coros[coro] = Done(coro)]
    ELSE IF m.gath[coro].num_completed < 1
    THEN Suspend(m, coro, k, List({m.gath[coro].completion_events[i] :
                                     i \in DOMAIN m.gath[coro].completion_events}))
    ELSE Continue(Segment(m, coro, k + 1), coro, k + 1)

\* the loop of gather as a loop that yields before it tests: the task is
\* suspended once whatever the count
GatherLoop_yield_first(m, coro, k) ==
    IF m.exc # "none" THEN [m EXCEPT !.coros[coro] = Done(coro)]
    ELSE IF m.coros[coro] # k \/ m.gath[coro].num_completed < m.gath[coro].num_total
    THEN Suspend(m, coro, k, List({m.gath[coro].completion_events[i] :
                                     i \in DOMAIN m.gath[coro].completion_events}))
    ELSE Continue(Segment(m, coro, k + 1), coro, k + 1)

\* the loop of gather: the completion events are yielded as long as a
\* coroutine has not completed; then the body goes on after the await
GatherLoop(m, coro, k) ==
    IF m.exc # "none" THEN [m EXCEPT !.coros[coro] = Done(coro)]
    ELSE IF m.gath[coro].num_completed < m.gath[coro].num_total
    THEN Suspend(m, coro, k, List({m.gath[coro].completion_events[i] :
                                     i \in DOMAIN m.gath[coro].completion_events}))
    ELSE Continue(Segment(m, coro, k + 1), coro, k + 1)

\* the body of the task from its k-th call on, the segment before it done
Continue(m, coro, k) ==
    IF k = Done(coro) THEN Completed([m EXCEPT !.coros[coro] = k], coro)
    ELSE IF Program(coro)[k].op = "sleep"
    THEN Suspend(Sleep(m, Program(coro)[k].delay), coro, k, UniqueEvent(m.counter))
    ELSE IF Program(coro)[k].op = "gather"
    THEN GatherLoop(GatherStart(m, coro, k), coro, k)
    ELSE Suspend(m, coro, k, Program(coro)[k].ev)

\* the task is suspended in the loop of gather
InGather(m, coro) ==
    /\ m.coros[coro] \in DOMAIN Program(coro)
    /\ Program(coro)[m.coros[coro]].op = "gather"

\* coro.send(None) and what resume does with what the coroutine yields
resume(m, coro) ==
    IF m.exc # "none" THEN m
    ELSE IF m.coros[coro] >= Done(coro) THEN Throw(m, "RuntimeError")
    ELSE IF InGather(m, coro) THEN GatherLoop(m, coro, m.coros[coro])
    ELSE Continue(Segment(m, coro, m.coros[coro] + 1), coro, m.coros[coro] + 1)

\* one call made by a subscriber's body
Exec(m, o, event) ==
    LET e == IF o.ev = SelfEv THEN event ELSE o.ev
    IN  CASE o.op = "subscribe" -> subscribe(m, e, o.cb)
          [] o.op = "multisubscribe" -> multisubscribe(m, o.sel, o.cb)
          [] o.op = "raise_event" -> raise_event(m, e)
          [] o.op = "resume" -> resume(m, o.cb)
          [] o.op = "add_delayed_event" -> add_delayed_event(m, o.delay, e)
          [] o.op = "increase_completed" ->
                 increase_completed(m, CHOOSE g \in Gatherers : IncreaseCompleted(g) = o.cb)
          [] o.op = "update" -> update(m, o.delay)
          [] o.op = "throw" -> Throw(m, "Error")
          [] OTHER -> m

Run(m, ops, event) ==
    IF ops = <<>> \/ m.exc # "none" THEN m
    ELSE Run(Exec(m, Head(ops), event), Tail(ops), event)

\* _call_subscriber / subscriber(event), called by the dispatch `call`
CallSubscriber(m, subscriber, event, call, via, entry) ==
    Run(Note(m, LogRec(via, call, subscriber, event, <<>>, entry)),
        Body(subscriber), event)

\* consume_deque that pops on the right (d.pop() for d.popleft())
consume_deque_pop_right(m, obj, consume_new_elements, st, call) ==
    LET d == Deque(m, obj)
        stop == IF consume_new_elements THEN Len(d) = 0
                ELSE Len(d) = 0 \/ st.i >= st.initial_size
    IN  IF m.exc # "none" \/ stop THEN m
        ELSE LET popped == [m EXCEPT !.store[obj[1]][obj[2]] = SubSeq(@, 1, Len(@) - 1)]
                 called == CallSubscriber(popped, d[Len(d)], obj[1], call, "sub", <<>>)
             IN  consume_deque(called, obj, consume_new_elements,
                               [st EXCEPT !.i = @ + 1], call)

\* consume_deque that ignores consume_new_elements=False
consume_deque_new_too(m, obj, consume_new_elements, st, call) ==
    LET d == Deque(m, obj)
    IN  IF m.exc # "none" \/ Len(d) = 0 THEN m
        ELSE IF st.i >= MaxCalls THEN Throw(m, "NoReturn")
        ELSE LET popped == [m EXCEPT !.store[obj[1]][obj[2]] = Tail(@)]
                 called == CallSubscriber(popped, Head(d), obj[1], call, "sub", <<>>)
             IN  consume_deque(called, obj, consume_new_elements,
                               [st EXCEPT !.i = @ + 1], call)

\* util.consume_deque(d, function, consume_new_elements) on the deque obj,
\* i elements popped so far; "NoReturn" stands for a loop that does not end
consume_deque(m, obj, consume_new_elements, st, call) ==
    LET d == Deque(m, obj)
        stop == IF consume_new_elements THEN Len(d) = 0
                ELSE Len(d) = 0 \/ st.i >= st.initial_size
    IN  IF m.exc # "none" \/ stop THEN m
        ELSE IF consume_new_elements /\ st.i >= MaxCalls THEN Throw(m, "NoReturn")
        ELSE LET popped == [m EXCEPT !.store[obj[1]][obj[2]] = Tail(@)]
                 called == CallSubscriber(popped, Head(d), obj[1], call, "sub", <<>>)
             IN  consume_deque(called, obj, consume_new_elements,
                               [st EXCEPT !.i = @ + 1], call)

\* the pass that keeps the entries it has called
MultiPass_keep_called(m, copy, k, remaining, event, call) ==
    IF m.exc # "none" THEN m
    ELSE IF k > Len(copy)
    THEN [m EXCEPT !.multi = remaining \o @]
    ELSE IF event \in copy[k].sel
    THEN MultiPass(CallSubscriber(m, copy[k].cb, event, call, "multi", <<copy[k]>>),
                   copy, k + 1, Append(remaining, copy[k]), event, call)
    ELSE MultiPass(m, copy, k + 1, Append(remaining, copy[k]), event, call)

\* the pass that joins the two lists the other way round
MultiPass_new_first(m, copy, k, remaining, event, call) ==
    IF m.exc # "none" THEN m
    ELSE IF k > Len(copy)
    THEN [m EXCEPT !.multi = @ \o remaining]
    ELSE IF event \in copy[k].sel
    THEN MultiPass(CallSubscriber(m, copy[k].cb, event, call, "multi", <<copy[k]>>),
                   copy, k + 1, remaining, event, call)
    ELSE MultiPass(m, copy, k + 1, Append(remaining, copy[k]), event, call)

\* the pass that does not retain the entries whose selector is false
MultiPass_forget_others(m, copy, k, remaining, event, call) ==
    IF m.exc # "none" THEN m
    ELSE IF k > Len(copy)
    THEN [m EXCEPT !.multi = remaining \o @]
    ELSE IF event \in copy[k].sel
    THEN MultiPass(CallSubscriber(m, copy[k].cb, event, call, "multi", <<copy[k]>>),
                   copy, k + 1, remaining, event, call)
    ELSE MultiPass(m, copy, k + 1, remaining, event, call)

\* the loop over multisubscriptions_copy from index k, `remaining` so far
MultiPass(m, copy, k, remaining, event, call) ==
    IF m.exc # "none" THEN m
    ELSE IF k > Len(copy)
    THEN [m EXCEPT !.multi = remaining \o @]
    ELSE IF event \in copy[k].sel
    THEN MultiPass(CallSubscriber(m, copy[k].cb, event, call, "multi", <<copy[k]>>),
                   copy, k + 1, remaining, event, call)
    ELSE MultiPass(m, copy, k + 1, Append(remaining, copy[k]), event, call)

\* del self._subscriptions[event]
DelEntry(m, event) ==
    IF event \in DOMAIN m.subs
    THEN [m EXCEPT !.subs = [x \in (DOMAIN m.subs) \ {event} |-> m.subs[x]]]
    ELSE Throw(m, "KeyError")

\* after the drain: the entry of the event is deleted if the deque is empty
DropIfEmpty(m, subscribers, event) ==
    IF m.exc # "none" THEN m
    ELSE IF Len(Deque(m, subscribers)) = 0 THEN DelEntry(m, event)
    ELSE m

\* the first half of raise_event: the ordinary subscriptions
Ordinary(m, event, call) ==
    IF event \notin DOMAIN m.subs THEN m
    ELSE DropIfEmpty(
             consume_deque(m, <<event, m.subs[event]>>, FALSE,
                           [i |-> 0, initial_size |-> Len(Current(m, event))], call),
             <<event, m.subs[event]>>, event)

\* the second half of raise_event: the multisubscriptions
Multis(m, event, call) ==
    IF m.exc # "none" THEN m
    ELSE MultiPass([m EXCEPT !.multi = <<>>], m.multi, 1, <<>>, event, call)

Begun(m, event) ==
    Note([m EXCEPT !.ncalls = @ + 1, !.depth = @ + 1],
         LogRec("begin", m.ncalls, "", event, Current(m, event), m.multi))

Drained(m, event, call) ==
    IF m.exc # "none" THEN m
    ELSE Note(m, LogRec("drained", call,
                        IF event \in DOMAIN m.subs THEN "present" ELSE "absent",
                        event, Current(m, event), m.multi))

Returned(m, event, call, depth) ==
    IF m.exc # "none" THEN [m EXCEPT !.depth = depth]
    ELSE [Note(m, LogRec("end", call, "", event, Current(m, event), m.multi))
             EXCEPT !.depth = depth]

raise_event(m, event) ==
    IF m.exc # "none" THEN m
    ELSE Returned(
             Multis(Drained(Ordinary(Begun(m, event), event, m.ncalls),
                            event, m.ncalls),
                    event, m.ncalls),
             event, m.ncalls, m.depth)

\* heappop in a `finally`: the entry is popped though the raise has failed
PopRaised_finally(m) ==
    IF Len(m.heap) = 0 THEN Throw(m, "IndexError")
    ELSE [Note(m, TimeRec("pop", "", m.heap[1].ev, <<>>, m.heap[1].tp))
             EXCEPT !.heap = heappop(m.heap).heap]

\* heapq.heappop(self._delayed_events) after the event was raised; an
\* IndexError if a handler has emptied the heap meanwhile
PopRaised(m) ==
    IF m.exc # "none" THEN m
    ELSE IF Len(m.heap) = 0 THEN Throw(m, "IndexError")
    ELSE SetHeap(Note(m, TimeRec("pop", "", m.heap[1].ev, <<>>, m.heap[1].tp)),
                 heappop(m.heap))

\* CoroutineManager._handle_delayed_events
handle_delayed_events(m) ==
    IF m.exc # "none" \/ Len(m.heap) = 0 THEN m
    ELSE IF ~has_passed(m, m.heap[1].tp) THEN m
    ELSE handle_delayed_events(
             PopRaised(raise_event(
                 Note(m, TimeRec("fire", "", m.heap[1].ev, <<>>, m.heap[1].tp)),
                 m.heap[1].ev)))

\* CoroutineManager.update
update(m, time_delta) ==
    handle_delayed_events(
        Note(time_tracker_update(m, time_delta),
             TimeRec("update", "", None, m.heap, m.elapsed + time_delta)))

(***************************************************************************)
(* From the variables to the machine and back.                             *)
(***************************************************************************)
Machine ==
    [subs |-> [e \in DOMAIN subscriptions |-> 1],
     store |-> [e \in DOMAIN subscriptions |-> <<subscriptions[e]>>],
     multi |-> multisubscriptions,
     counter |-> counter,
     elapsed |-> elapsed_time,
     heap |-> delayed_events,
     coros |-> coros,
     gath |-> gathers,
     log |-> <<>>, exc |-> "none", ncalls |-> 0, depth |-> 0]

\* the fields of the objects when the call `op` returns (or its error
\* propagates)
Commit(m, op, event) ==
    /\ subscriptions' = [e \in DOMAIN m.subs |-> m.store[e][m.subs[e]]]
    /\ multisubscriptions' = m.multi
    /\ counter' = m.counter
    /\ elapsed_time' = m.elapsed
    /\ delayed_events' = m.heap
    /\ coros' = m.coros
    /\ gathers' = m.gath
    /\ time_points' = time_points
    /\ last' = [op |-> op, ev |-> event, log |-> m.log, exc |-> m.exc]

Empty == [e \in {} |-> <<>>]

Init ==
    /\ subscriptions = Empty
    /\ multisubscriptions = <<>>
    /\ counter = 0
    /\ elapsed_time = 0
    /\ delayed_events = <<>>
    /\ coros = Empty
    /\ gathers = Empty
    /\ time_points = <<>>
    /\ last = [op |-> "init", ev |-> None, log |-> <<>>, exc |-> "none"]

(***************************************************************************)
(* The client's calls on the event manager.                                *)
(***************************************************************************)
Subscribers == {"foo", "bar", "sub_baz", "reraise", "raise_sub", "raise_b"}

MultiSubscribers == {"foo", "raise_b", "msub"}

Selectors == {{Ev("a")}, {Ev("b")}}

RECURSIVE SumLen(_, _)
SumLen(f, S) ==
    IF S = {} THEN 0
    ELSE LET x == CHOOSE y \in S : TRUE IN Len(f[x]) + SumLen(f, S \ {x})

Regs == SumLen(subscriptions, DOMAIN subscriptions) + Len(multisubscriptions)

Subscribe(event, subscriber) ==
    /\ Regs < MaxRegs
    /\ Commit(subscribe(Machine, event, subscriber), "subscribe", event)

Multisubscribe(selector, subscriber) ==
    /\ Regs < MaxRegs
    /\ Commit(multisubscribe(Machine, selector, subscriber), "multisubscribe", None)

RaiseEvent(event) ==
    /\ event.tag = "app"
    /\ Commit(raise_event(Machine, event), "raise_event", event)

NextBus ==
    \/ \E e \in AppEvents, s \in Subscribers : Subscribe(e, s)
    \/ \E sel \in Selectors, s \in MultiSubscribers : Multisubscribe(sel, s)
    \/ \E e \in AppEvents : RaiseEvent(e)

SpecBus == Init /\ [][NextBus]_vars

(***************************************************************************)
(* The client's calls on the coroutine manager: delayed events and the     *)
(* clock, with handlers that only record their call and tasks that sleep.  *)
(***************************************************************************)
Sleepers == {"s1", "s1x", "s2"}

Waiters == {"t_ab", "t_aa", "t_b"}

AddDelayedEvent(delay, event) ==
    /\ Len(delayed_events) < MaxHeap
    /\ Commit(add_delayed_event(Machine, delay, event), "add_delayed_event", event)

Update(time_delta) ==
    /\ elapsed_time + time_delta <= MaxTime
    /\ Commit(update(Machine, time_delta), "update", None)

Start(coro) ==
    /\ coro \notin DOMAIN coros
    /\ Len(delayed_events) < MaxHeap
    /\ Commit(start(Machine, coro), "start", None)

\* one handler for an event, as the test of delayed events has it
SubscribeHandler(event) ==
    /\ event \notin DOMAIN subscriptions
    /\ Subscribe(event, "foo")

NextTimer ==
    \/ \E d \in 0..MaxDelay, e \in AppEvents : AddDelayedEvent(d, e)
    \/ \E d \in 0..MaxDelay : Update(d)
    \/ \E e \in AppEvents : SubscribeHandler(e)

SpecTimer == Init /\ [][NextTimer]_vars

NextSleep ==
    \/ \E t \in Sleepers : Start(t)
    \/ \E d \in 1..MaxDelay : AddDelayedEvent(d, Ev("a"))
    \/ \E d \in 0..MaxDelay : Update(d)

SpecSleep == Init /\ [][NextSleep]_vars

(***************************************************************************)
(* Tasks that wait for events, next to ordinary subscribers.               *)
(***************************************************************************)
NextTask ==
    \/ \E t \in Waiters : Start(t)
    \/ \E e \in AppEvents : RaiseEvent(e)
    \/ \E e \in AppEvents, s \in {"foo", "sub_baz"} : Subscribe(e, s)

SpecTask == Init /\ [][NextTask]_vars

(***************************************************************************)
(* Tasks that gather other tasks: the gathered tasks wait for events or    *)
(* sleep, or gather themselves.                                            *)
(***************************************************************************)
Gatherings == {"g", "g_s", "o"}

NextGather ==
    \/ \E t \in Gatherings : Start(t)
    \/ \E e \in AppEvents : RaiseEvent(e)
    \/ \E d \in 0..MaxDelay : Update(d)

SpecGather == Init /\ [][NextGather]_vars

(***************************************************************************)
(* Tasks that gather nothing (g_e), tasks that return without a call that  *)
(* suspends them (g_0) and one such task next to one that waits (g_1).     *)
(***************************************************************************)
GatheringsNow == {"g_e", "g_0", "g_1"}

NextGatherNow ==
    \/ \E t \in GatheringsNow : Start(t)
    \/ \E e \in AppEvents : RaiseEvent(e)
    \/ \E d \in 1..MaxDelay : Update(d)

SpecGatherNow == Init /\ [][NextGatherNow]_vars

(***************************************************************************)
(* Tasks that wait for an event, for an event a predicate accepts and for  *)
(* one of a list of events, and a client that calls resume itself.         *)
(***************************************************************************)
Awaiters == {"t_ab", "t_pred", "t_list", "t_0"}

\* CoroutineManager.resume called by the client on a coroutine it started
Resume(coro) ==
    /\ coro \in DOMAIN coros
    /\ Commit(resume(Note(Machine, TimeRec("resume", coro, None, <<>>, coros[coro])),
                     coro),
              "resume", None)

NextWait ==
    \/ \E t \in Awaiters : Start(t)
    \/ \E t \in Awaiters : Resume(t)
    \/ \E e \in AppEvents : RaiseEvent(e)

SpecWait == Init /\ [][NextWait]_vars

(***************************************************************************)
(* Delayed events whose handlers call back into the coroutine manager:     *)
(* add_a schedules event a with no delay, tick calls update(0).            *)
(***************************************************************************)
Handlers == {"add_a"}

\* a handler that calls update, registered for one event by a selector
MultisubscribeTick(event) ==
    /\ multisubscriptions = <<>>
    /\ Multisubscribe({event}, "tick")

\* one handler for an event
SubscribeOne(event, subscriber) ==
    /\ event \notin DOMAIN subscriptions
    /\ Subscribe(event, subscriber)

NextHandlers ==
    \/ \E d \in 0..MaxDelay, e \in AppEvents : AddDelayedEvent(d, e)
    \/ \E d \in 0..MaxDelay : Update(d)
    \/ \E e \in AppEvents, s \in Handlers : SubscribeOne(e, s)
    \/ MultisubscribeTick(Ev("a"))

SpecHandlers == Init /\ [][NextHandlers]_vars

(***************************************************************************)
(* A client that asks for unique events next to tasks that sleep and       *)
(* gather.                                                                 *)
(***************************************************************************)
Minters == {"s1x", "g_s", "o"}

UniqueEventCall ==
    /\ counter < MaxNonce
    /\ Commit(unique_event(Machine), "unique_event", None)

NextUnique ==
    \/ UniqueEventCall
    \/ \E t \in Minters : Start(t)
    \/ \E d \in 0..MaxDelay : Update(d)
    \/ \E e \in AppEvents : RaiseEvent(e)

SpecUnique == Init /\ [][NextUnique]_vars

(***************************************************************************)
(* Comparisons of time points.  A FutureTimePoint belongs to a time        *)
(* tracker; the client compares one with another value, which may be a     *)
(* time point of the same or of another tracker, or no time point at all.  *)
(***************************************************************************)
FutureTimePoint(time_tracker, time_point) ==
    [kind |-> "FutureTimePoint", time_tracker |-> time_tracker, time_point |-> time_point]

\* a value of another type: an int, a str, None
Other(kind) == [kind |-> kind, time_tracker |-> 0, time_point |-> 0]

\* the result of a comparison: a boolean, or the error raised
Value(b) == [exc |-> "none", value |-> b]

Raise(exc) == [exc |-> exc, value |-> FALSE]

\* _check_comparability without the test of the time trackers
check_comparability_any_tracker(self, other) ==
    IF other.kind # "FutureTimePoint" THEN "TypeError"
    ELSE "none"

\* FutureTimePoint._check_comparability: the error it raises, if any
check_comparability(self, other) ==
    IF other.kind # "FutureTimePoint" THEN "TypeError"
    ELSE IF self.time_tracker # other.time_tracker THEN "ValueError"
    ELSE "none"

\* FutureTimePoint.__eq__
time_point_eq(self, other) ==
    IF check_comparability(self, other) # "none"
    THEN Raise(check_comparability(self, other))
    ELSE Value(self.time_point = other.time_point)

\* FutureTimePoint.__lt__
time_point_lt(self, other) ==
    IF check_comparability(self, other) # "none"
    THEN Raise(check_comparability(self, other))
    ELSE Value(self.time_point < other.time_point)

\* object.__ne__: the inverse of __eq__
time_point_ne(self, other) ==
    IF time_point_eq(self, other).exc # "none" THEN time_point_eq(self, other)
    ELSE Value(~time_point_eq(self, other).value)

\* __gt__ as functools.total_ordering derives it from __lt__:
\* not (self < other) and self != other
time_point_gt(self, other) ==
    IF time_point_lt(self, other).exc # "none" THEN time_point_lt(self, other)
    ELSE IF time_point_lt(self, other).value THEN Value(FALSE)
    ELSE time_point_ne(self, other)

Relations == {"==", "!=", "<", ">"}

Compared(self, other, relation) ==
    CASE relation = "==" -> time_point_eq(self, other)
      [] relation = "!=" -> time_point_ne(self, other)
      [] relation = "<" -> time_point_lt(self, other)
      [] relation = ">" -> time_point_gt(self, other)

\* the time points of two time trackers, and values that are none
TimePoints == {FutureTimePoint(k, n) : k \in {1, 2}, n \in 0..MaxTime}

Others == {Other("int"), Other("str"), Other("NoneType")}

\* the client evaluates `self relation other`
Compare(self, other, relation) ==
    /\ last' = [op |-> relation, ev |-> None,
                log |-> << [t |-> "compare", self |-> self, other |-> other,
                            value |-> Compared(self, other, relation).value] >>,
                exc |-> Compared(self, other, relation).exc]
    /\ UNCHANGED <<subscriptions, multisubscriptions, counter, elapsed_time,
                   delayed_events, coros, gathers, time_points>>

NextCompare ==
    \E self \in TimePoints, other \in TimePoints \cup Others, relation \in Relations :
        Compare(self, other, relation)

SpecCompare == Init /\ [][NextCompare]_vars

(***************************************************************************)
(* Tasks from their start to their end: the client starts them, raises     *)
(* events and advances the clock, and calls resume on no task itself.      *)
(***************************************************************************)
Lifelong == {"t_ab", "t_list", "l_s", "s1"}

NextLife ==
    \/ \E t \in Lifelong : Start(t)
    \/ \E e \in AppEvents : RaiseEvent(e)
    \/ \E d \in 0..MaxDelay : Update(d)

SpecLife == Init /\ [][NextLife]_vars

(***************************************************************************)
(* Subscribers that raise an error: fail raises one when it is called, as  *)
(* a subscriber of a delayed event or as a multisubscriber.                *)
(***************************************************************************)
Failing == {"foo", "fail"}

\* multisubscribe(selector, subscriber) while fewer than two are registered
MultisubscribeFew(selector, subscriber) ==
    /\ Len(multisubscriptions) < 2
    /\ Multisubscribe(selector, subscriber)

NextFail ==
    \/ \E s \in Failing : Subscribe(Ev("a"), s)
    \/ \E s \in Failing : MultisubscribeFew({Ev("a")}, s)
    \/ \E d \in 1..MaxDelay : AddDelayedEvent(d, Ev("a"))
    \/ \E d \in 0..MaxDelay : Update(d)

SpecFail == Init /\ [][NextFail]_vars

\* the event manager alone, with multisubscribers that raise an error
NextFailPass ==
    \/ \E sel \in Selectors, s \in Failing : Multisubscribe(sel, s)
    \/ \E e \in AppEvents : RaiseEvent(e)

SpecFailPass == Init /\ [][NextFailPass]_vars

(***************************************************************************)
(* A client of consume_deque: it drains the deque of an event itself, as   *)
(* raise_event does, with or without the elements that are appended while  *)
(* the drain runs.  The elements are subscribers that append to the deque  *)
(* they were taken from: called for 42, quux appends baz and chain appends *)
(* quux; again appends itself.  Called for another event, quux appends baz *)
(* to the deque of 42.                                                     *)
(***************************************************************************)
Drainees == {"foo", "quux", "chain", "again"}

DrainEvents == {Ev("42"), Ev("test_event_1")}

\* consume_deque(subscriptions[event], lambda sub: sub(event), consume_new_elements)
ConsumeDeque(event, consume_new_elements) ==
    /\ event \in DOMAIN subscriptions
    /\ Commit(consume_deque(
                  Note(Machine,
                       LogRec("consume_deque", 0,
                              IF consume_new_elements THEN "True" ELSE "False",
                              event, subscriptions[event], <<>>)),
                  <<event, 1>>, consume_new_elements,
                  [i |-> 0, initial_size |-> Len(subscriptions[event])], 0),
              "consume_deque", event)

NextDrain ==
    \/ \E e \in DrainEvents, s \in Drainees : Subscribe(e, s)
    \/ \E e \in DrainEvents, b \in BOOLEAN : ConsumeDeque(e, b)
    \/ \E e \in DrainEvents : RaiseEvent(e)

SpecDrain == Init /\ [][NextDrain]_vars

(***************************************************************************)
(* A client of the time tracker alone: it advances the clock (also by a    *)
(* negative delta, which update does not check), asks for time points and  *)
(* asks a time point whether it has passed.  A time point is kept with the *)
(* elapsed time and the delta of the `after` call that returned it.        *)
(***************************************************************************)
Deltas == (0 - 1)..MaxDelay

\* the record of a call on the time tracker: the arguments, what was read
ClockRec(t, time_delta, point, value) ==
    [t |-> t, time_delta |-> time_delta, point |-> point, value |-> value]

NoPoint == [at |-> 0, time_delta |-> 0, time_point |-> 0]

\* time_tracker.update(time_delta)
TimeTrackerUpdate(time_delta) ==
    /\ elapsed_time + time_delta \in 0..MaxTime
    /\ elapsed_time' = time_tracker_update(Machine, time_delta).elapsed
    /\ last' = [op |-> "time_tracker.update", ev |-> None,
                log |-> << ClockRec("update", time_delta, NoPoint, FALSE) >>,
                exc |-> "none"]
    /\ UNCHANGED <<subscriptions, multisubscriptions, counter, delayed_events,
                   coros, gathers, time_points>>

\* time_tracker.after(time_delta): the client keeps the time point
After(time_delta) ==
    /\ Len(time_points) < MaxPoints
    /\ time_points' = Append(time_points,
                             [at |-> elapsed_time, time_delta |-> time_delta,
                              time_point |-> after(Machine, time_delta)])
    /\ last' = [op |-> "time_tracker.after", ev |-> None,
                log |-> << ClockRec("after", time_delta, NoPoint, FALSE) >>,
                exc |-> "none"]
    /\ UNCHANGED <<subscriptions, multisubscriptions, counter, elapsed_time,
                   delayed_events, coros, gathers>>

\* time_point.has_passed() on the i-th time point the client holds
HasPassed(i) ==
    /\ i \in DOMAIN time_points
    /\ last' = [op |-> "has_passed", ev |-> None,
                log |-> << ClockRec("has_passed", 0, time_points[i],
                                    has_passed(Machine, time_points[i].time_point)) >>,
                exc |-> "none"]
    /\ UNCHANGED <<subscriptions, multisubscriptions, counter, elapsed_time,
                   delayed_events, coros, gathers, time_points>>

NextClock ==
    \/ \E d \in Deltas : TimeTrackerUpdate(d)
    \/ \E d \in 0..MaxDelay : After(d)
    \/ \E i \in 1..MaxPoints : HasPassed(i)

SpecClock == Init /\ [][NextClock]_vars

(***************************************************************************)
(* Reading the record of the last call.  Every raise_event call, nested or *)
(* not, has a number; it notes "begin" (with the queue of its event and    *)
(* the multisubscription list as they were), "drained" after the ordinary  *)
(* subscribers and "end" when it returns; "sub" and "multi" note a         *)
(* subscriber called from the queue and from the multisubscription pass.   *)
(***************************************************************************)
Log == last.log

Has(t, c) == \E i \in DOMAIN Log : Log[i].t = t /\ Log[i].call = c

At(t, c) == CHOOSE i \in DOMAIN Log : Log[i].t = t /\ Log[i].call = c

Begins == {i \in DOMAIN Log : Log[i].t = "begin"}

Names(s) == [i \in DOMAIN s |-> s[i].cb]

\* the subscribers that call c itself took from the queue / from its pass
SubCalls(c) == SelectSeq(Log, LAMBDA r : r.t = "sub" /\ r.call = c)

MultiCalls(c) == SelectSeq(Log, LAMBDA r : r.t = "multi" /\ r.call = c)

\* the records of kind t strictly between positions lo and hi
Window(t, lo, hi) ==
    SelectSeq([i \in 1..Len(Log) |-> [r |-> Log[i], at |-> i]],
              LAMBDA x : x.r.t = t /\ x.at > lo /\ x.at < hi)

Matching(ms, event) == SelectSeq(ms, LAMBDA x : event \in x.sel)

NonMatching(ms, event) == SelectSeq(ms, LAMBDA x : event \notin x.sel)

RECURSIVE IsSubseq(_, _)
IsSubseq(s, t) ==
    IF s = <<>> THEN TRUE
    ELSE IF t = <<>> THEN FALSE
    ELSE IF Head(s) = Head(t) THEN IsSubseq(Tail(s), Tail(t))
    ELSE IsSubseq(s, Tail(t))

IsPrefix(s, t) == Len(s) <= Len(t) /\ SubSeq(t, 1, Len(s)) = s

(***************************************************************************)
(* Claims about the event manager, checked under SpecBus.                  *)
(***************************************************************************)

\* no raise_event begins between two positions of the record
NoBeginIn(lo, hi) == Window("begin", lo, hi) = <<>>

\* the same, for raise_event calls of one event
NoRaiseOfIn(event, lo, hi) ==
    \A i \in Begins : (i > lo /\ i < hi) => Log[i].ev # event

Registered(t, event, lo, hi) ==
    SelectSeq([i \in 1..Len(Log) |-> [r |-> Log[i], at |-> i]],
              LAMBDA x : x.r.t = t /\ x.r.ev = event /\ x.at > lo /\ x.at < hi)

\* C1: when the subscribers queued for an event only record their call,
\* a raise_event of it calls each of them once, in the order of their
\* subscription, with the event, and drops the queue; a raise_event that
\* finds no queue calls no subscriber from a queue.
C1_FifoOneShot ==
    \A i \in Begins :
        LET b == Log[i] IN
        (\A k \in DOMAIN b.q : Plain(b.q[k])) =>
            /\ Names(SubCalls(b.call)) = b.q
            /\ \A k \in DOMAIN SubCalls(b.call) : SubCalls(b.call)[k].ev = b.ev
            /\ Has("drained", b.call)
            /\ Log[At("drained", b.call)].cb = "absent"

C1_Witness ==
    /\ last.op = "raise_event"
    /\ Log[1].q = <<"foo", "bar">>
    /\ Names(SubCalls(0)) = <<"foo", "bar">>
    /\ last.ev \notin DOMAIN subscriptions

\* C2: in a raise_event(e) whose subscribers do not raise e again, the
\* subscribers called from the queue are the ones queued when it began, so a
\* subscriber that one of them subscribes to e is not called; the new ones
\* are what the queue of e holds afterwards, in the order of subscription,
\* for the next raise_event(e) to call.
C2_NewSubscriberNotCalled ==
    \A i \in Begins :
        LET b == Log[i] IN
        (Has("drained", b.call)
            /\ NoRaiseOfIn(b.ev, i, At("drained", b.call))) =>
            LET d == At("drained", b.call)
                new == Registered("subscribe", b.ev, i, d)
            IN  /\ Names(SubCalls(b.call)) = b.q
                /\ Log[d].q = [k \in DOMAIN new |-> new[k].r.cb]
                /\ (Log[d].cb = "present") <=> (new # <<>>)

C2_Witness ==
    /\ last.op = "raise_event"
    /\ Log[1].q = <<"sub_baz", "foo">>
    /\ Names(SubCalls(0)) = <<"sub_baz", "foo">>
    /\ last.ev \in DOMAIN subscriptions
    /\ subscriptions[last.ev] = <<"baz">>

\* the subscribers called from the queue of `event` between two positions,
\* by whichever raise_event call
SubCallsIn(event, lo, hi) ==
    LET w == Registered("sub", event, lo, hi)
    IN  [k \in DOMAIN w |-> w[k].r.cb]

\* C3: every raise_event(e) call, nested or not, calls from the queue only
\* subscribers that were queued for e when that call began, and each of
\* those is called once while the call drains the queue.
C3_OnlySnapshotCalled ==
    \A i \in Begins :
        LET b == Log[i] IN
        Has("drained", b.call) =>
            /\ IsSubseq(Names(SubCalls(b.call)), b.q)
            /\ IsPrefix(b.q, SubCallsIn(b.ev, i, At("drained", b.call)))

\* C4: raise_event raises no error of its own, whatever the subscribers
\* (none of which raises an error itself) call back.
C4_RaiseEventNoError ==
    last.op = "raise_event" => last.exc = "none"

\* C5: in a raise_event(e) whose multisubscribers register and raise
\* nothing, the multisubscribers called are those of the entries whose
\* selector accepts e, each once, in order, with e; these entries are gone
\* afterwards and the other entries are all kept, in order, uncalled.
C5_MultiOneShot ==
    \A i \in Begins :
        LET b == Log[i] IN
        (Has("end", b.call)
            /\ NoBeginIn(At("drained", b.call), At("end", b.call))
            /\ Window("multisubscribe", At("drained", b.call), At("end", b.call)) = <<>>) =>
            LET snapshot == Log[At("drained", b.call)].ms
                calls == MultiCalls(b.call)
            IN  /\ Names(calls) = Names(Matching(snapshot, b.ev))
                /\ \A k \in DOMAIN calls : calls[k].ev = b.ev
                /\ Log[At("end", b.call)].ms = NonMatching(snapshot, b.ev)

C5_Witness ==
    /\ last.op = "raise_event"
    /\ last.ev = Ev("a")
    /\ Log[1].ms = << [sel |-> {Ev("b")}, cb |-> "foo"], [sel |-> {Ev("a")}, cb |-> "foo"] >>
    /\ Names(MultiCalls(0)) = <<"foo">>
    /\ multisubscriptions = << [sel |-> {Ev("b")}, cb |-> "foo"] >>

\* how many entries equal to x are registered and not yet called at
\* position i of the record
Pending(x, i) ==
    Cardinality({k \in DOMAIN Log[1].ms : Log[1].ms[k] = x})
    + Cardinality({j \in 1..(i - 1) : Log[j].t = "multisubscribe" /\ Log[j].ms = <<x>>})
    - Cardinality({j \in 1..(i - 1) : Log[j].t = "multi" /\ Log[j].ms = <<x>>})

Entries == {Log[j].ms[1] : j \in {k \in DOMAIN Log : Log[k].t \in {"multisubscribe", "multi"}}}
           \cup {Log[1].ms[k] : k \in DOMAIN Log[1].ms}

\* C6: a raise_event(e) call, nested or not, does not return before the
\* multisubscriber of every entry that was registered, not yet called, when
\* it began and whose selector accepts e has been called.
C6_NoMatchingRaiseMissed ==
    last.op = "raise_event" =>
    \A i \in Begins :
        LET b == Log[i] IN
        Has("end", b.call) =>
            \A x \in Entries :
                b.ev \in x.sel =>
                    Cardinality({j \in (i + 1)..At("end", b.call) :
                                    Log[j].t = "multi" /\ Log[j].ms = <<x>>})
                        >= Pending(x, i)

\* the entries registered between two positions of the record
NewEntries(lo, hi) ==
    LET w == Window("multisubscribe", lo, hi)
    IN  [k \in DOMAIN w |-> w[k].r.ms[1]]

\* C7: the multisubscription pass of a raise_event(e) calls the matching
\* entries of its snapshot and no entry registered during the pass; when the
\* call returns the list is the snapshot's entries that do not match, in
\* order, followed by entries registered during the pass, in order (all of
\* them when no raise_event was nested in the pass).
C7_NewEntriesNotEvaluated ==
    \A i \in Begins :
        LET b == Log[i] IN
        Has("end", b.call) =>
            LET d == At("drained", b.call)
                e == At("end", b.call)
                snapshot == Log[d].ms
                kept == NonMatching(snapshot, b.ev)
                final == Log[e].ms
            IN  /\ Names(MultiCalls(b.call)) = Names(Matching(snapshot, b.ev))
                /\ IsPrefix(kept, final)
                /\ IsSubseq(SubSeq(final, Len(kept) + 1, Len(final)), NewEntries(d, e))
                /\ NoBeginIn(d, e) =>
                       SubSeq(final, Len(kept) + 1, Len(final)) = NewEntries(d, e)

C7_Witness ==
    /\ last.op = "raise_event"
    /\ last.ev = Ev("a")
    /\ Log[1].ms = << [sel |-> {Ev("a")}, cb |-> "msub"], [sel |-> {Ev("b")}, cb |-> "foo"] >>
    /\ Names(MultiCalls(0)) = <<"msub">>
    /\ multisubscriptions = << [sel |-> {Ev("b")}, cb |-> "foo"], [sel |-> AppEvents, cb |-> "baz"] >>

(***************************************************************************)
(* Claims about delayed events, checked under SpecTimer and SpecSleep.     *)
(***************************************************************************)
Count(s, x) == Cardinality({i \in DOMAIN s : s[i] = x})

SameBag(s, t) ==
    /\ Len(s) = Len(t)
    /\ \A i \in DOMAIN s : Count(s, s[i]) = Count(t, s[i])

\* the entries update raised, in order, and the ones it popped
Fired ==
    LET w == SelectSeq(Log, LAMBDA r : r.t = "fire")
    IN  [k \in DOMAIN w |-> [tp |-> w[k].at, ev |-> w[k].ev]]

Popped ==
    LET w == SelectSeq(Log, LAMBDA r : r.t = "pop")
    IN  [k \in DOMAIN w |-> [tp |-> w[k].at, ev |-> w[k].ev]]

Due(heap, now) == SelectSeq(heap, LAMBDA x : x.tp <= now)

NotDue(heap, now) == SelectSeq(heap, LAMBDA x : x.tp > now)

AddedInside == SelectSeq(Log, LAMBDA r : r.t = "add_delayed_event") # <<>>

\* C8: an update over a heap of application events, whose handlers add no
\* delayed event, raises exactly the entries whose deadline is not after
\* the new elapsed time, each once, by ascending deadline, and removes
\* them; the entries with a later deadline are not raised and stay.  An
\* entry is hence raised by the first update that reaches its deadline
\* and by no other.
C8_DelayedRaisedOnce ==
    (/\ last.op = "update"
     /\ \A i \in DOMAIN Log[1].q : Log[1].q[i].ev.tag = "app"
     /\ ~AddedInside) =>
        /\ last.exc = "none"
        /\ elapsed_time = Log[1].at
        /\ SameBag(Fired, Due(Log[1].q, elapsed_time))
        /\ \A i, j \in DOMAIN Fired : i < j => Fired[i].tp <= Fired[j].tp
        /\ \A i \in DOMAIN Log :
               Log[i].t = "fire" =>
                   /\ i < Len(Log)
                   /\ Log[i + 1].t = "begin" /\ Log[i + 1].ev = Log[i].ev
        /\ SameBag(delayed_events, NotDue(Log[1].q, elapsed_time))

C8_Witness ==
    /\ last.op = "update"
    /\ last.exc = "none"
    /\ Len(Log[1].q) = 3
    /\ \A i \in DOMAIN Log[1].q : Log[1].q[i].ev.tag = "app"
    /\ Len(Fired) = 2
    /\ Fired[1].tp = Fired[2].tp
    /\ Fired[1].ev # Fired[2].ev
    /\ Len(delayed_events) = 1
    /\ \E i \in DOMAIN Log : Log[i].t = "sub" /\ Log[i].cb = "foo"

\* C9: delayed events with equal deadlines are supported: neither
\* add_delayed_event, nor a start that reaches a sleep, nor update raises an
\* error, and after an update no entry whose deadline has passed is left.
C9_EqualDeadlinesSupported ==
    /\ last.op \in {"add_delayed_event", "start", "update"} => last.exc = "none"
    /\ last.op = "update" =>
           \A i \in DOMAIN delayed_events : delayed_events[i].tp > elapsed_time

(***************************************************************************)
(* Claims about tasks, checked under SpecTask.                             *)
(***************************************************************************)
Runs(t) == SelectSeq(Log, LAMBDA r : r.t = "run" /\ r.cb = t)

AllRuns == SelectSeq(Log, LAMBDA r : r.t = "run")

\* the position of task t before the last call
Before(t) == IF Runs(t) # <<>> THEN Runs(t)[1].at - 1 ELSE coros[t]

WaitsFor(t, pc, event) ==
    /\ pc \in 1..Len(Program(t))
    /\ Program(t)[pc].op = "wait_for_event"
    /\ Program(t)[pc].ev = event

\* C10: start runs the first segment of the task, and of no other, before
\* it returns; a raise_event(e) runs one segment of every task that was
\* suspended in wait_for_event(e), also when the task waits for e again, and
\* no segment of any other task; nothing else runs a task.
C10_ResumedByItsEventOnly ==
    /\ last.op = "start" =>
           /\ Len(AllRuns) = 1
           /\ AllRuns[1].at = 1
           /\ coros[AllRuns[1].cb] = 1
    /\ last.op = "raise_event" =>
           \A t \in DOMAIN coros :
               /\ Len(Runs(t)) = IF WaitsFor(t, Before(t), last.ev) THEN 1 ELSE 0
               /\ coros[t] = Before(t) + Len(Runs(t))
    /\ last.op \notin {"start", "raise_event"} => AllRuns = <<>>

C10_Witness ==
    /\ last.op = "raise_event"
    /\ last.ev = Ev("a")
    /\ {"t_aa", "t_b"} \subseteq DOMAIN coros
    /\ Len(Runs("t_aa")) = 1
    /\ Runs("t_aa")[1].at = 2
    /\ coros["t_aa"] = 2
    /\ coros["t_b"] = 1
    /\ subscriptions[Ev("a")] = <<"t_aa">>

\* the tasks in the queue of an event, in the order of their suspension
TaskQ(event) ==
    IF event \in DOMAIN subscriptions
    THEN SelectSeq(subscriptions[event], LAMBDA x : x \in Waiters)
    ELSE <<>>

\* the tasks of `tasks` that are suspended in wait_for_event(event) when the
\* tasks' positions are `pos`
NowWaiting(tasks, pos, event) ==
    SelectSeq(tasks, LAMBDA t : WaitsFor(t, pos[t], event))

C11_Step ==
    /\ last'.op = "start" =>
           \A e \in AppEvents :
               TaskQ(e)' = IF WaitsFor(AllRuns'[1].cb, 1, e)
                           THEN Append(TaskQ(e), AllRuns'[1].cb)
                           ELSE TaskQ(e)
    /\ last'.op = "raise_event" =>
           /\ Names(AllRuns') = TaskQ(last'.ev)
           /\ \A e \in AppEvents :
                  TaskQ(e)' = (IF e = last'.ev THEN <<>> ELSE TaskQ(e))
                              \o NowWaiting(TaskQ(last'.ev), coros', e)

\* C11: a task that suspends on e goes to the end of the tasks suspended on
\* e; a raise_event(e) resumes every task suspended on e once, in the order
\* of their suspension; the tasks that wait again during their resumption
\* are not resumed again by that raise: they are suspended anew, in the
\* order of their resumption, behind the tasks already suspended on the
\* event they wait for, for its next raise.
C11_ResumedOnceInOrder == [][C11_Step]_vars

C11_Witness ==
    /\ last.op = "raise_event"
    /\ last.ev = Ev("a")
    /\ Names(AllRuns) = <<"t_ab", "t_aa">>
    /\ coros["t_ab"] = 2 /\ coros["t_aa"] = 2
    /\ TaskQ(Ev("a")) = <<"t_aa">>
    /\ TaskQ(Ev("b")) = <<"t_b", "t_ab">>

(***************************************************************************)
(* Claims about sleeping tasks, checked under SpecSleep.                   *)
(***************************************************************************)

\* the entries of the heap whose event has exactly the resumer of t queued
TimerOf(t) ==
    {i \in DOMAIN delayed_events :
        /\ delayed_events[i].ev \in DOMAIN subscriptions
        /\ subscriptions[delayed_events[i].ev] = <<t>>}

\* C12: a start that reaches sleep(d) at time T raises no error and leaves
\* the task suspended on one timer of deadline T + d; a task stays
\* suspended on its one timer as long as the deadline is ahead; an update
\* resumes a task at most once, leaves no task suspended on a timer whose
\* deadline it has reached, and raises no error; nothing but update resumes
\* a sleeping task.
C12_SleepResumedOnce ==
    /\ last.op \in {"start", "update"} => last.exc = "none"
    /\ last.op = "start" =>
           /\ Len(AllRuns) = 1
           /\ coros[AllRuns[1].cb] = 1
           /\ \A i \in TimerOf(AllRuns[1].cb) :
                  delayed_events[i].tp = elapsed_time + Program(AllRuns[1].cb)[1].delay
    /\ \A t \in DOMAIN coros :
           /\ coros[t] = 1 => Cardinality(TimerOf(t)) = 1
           /\ Len(Runs(t)) <= 1
           /\ (last.op = "update" /\ coros[t] = 1) =>
                  \A i \in TimerOf(t) : delayed_events[i].tp > elapsed_time
    /\ last.op = "add_delayed_event" => AllRuns = <<>>

(***************************************************************************)
(* Claims about gather, checked under SpecGather.                          *)
(***************************************************************************)
GatherNotes == {i \in DOMAIN Log : Log[i].t = "gather"}

\* the next thing the task of the record at i does itself: it runs on, or
\* it is suspended; past the end of the record if there is none
NextOwn(i) ==
    LET own == {j \in DOMAIN Log :
                   /\ j > i
                   /\ Log[j].cb = Log[i].cb
                   /\ Log[j].t \in {"run", "subscribe", "multisubscribe"}}
    IN  IF own = {} THEN Len(Log) + 1
        ELSE CHOOSE j \in own : \A x \in own : j <= x

Range(f) == {f[i] : i \in DOMAIN f}

\* the tasks of `tasks` whose first segment runs between two positions
FirstRuns(tasks, lo, hi) ==
    LET w == SelectSeq([i \in 1..Len(Log) |-> [r |-> Log[i], at |-> i]],
                       LAMBDA x : /\ x.r.t = "run" /\ x.r.at = 1
                                  /\ x.r.cb \in tasks
                                  /\ x.at > lo /\ x.at < hi)
    IN  [k \in DOMAIN w |-> w[k].r.cb]

\* C13: between the moment a task enters gather and the moment it is first
\* suspended in it (or goes on, every coroutine having completed at once),
\* the first segments of the gathered tasks have run, all of them and in
\* the order of the list.
C13_StartedInOrderBeforeSuspend ==
    \A i \in GatherNotes :
        LET cs == Program(Log[i].cb)[Log[i].at].coroutines
            started == FirstRuns(Range(cs), i, NextOwn(i))
        IN  /\ IsPrefix(started, cs)
            /\ NextOwn(i) <= Len(Log) => started = cs

C13_Witness ==
    /\ last.op = "start"
    /\ last.exc = "none"
    /\ Log[2].t = "gather" /\ Log[2].cb = "g"
    /\ Log[NextOwn(2)].t = "multisubscribe"
    /\ FirstRuns({"t_ab", "t_b", "t_0"}, 2, NextOwn(2)) = <<"t_ab", "t_b", "t_0">>
    /\ coros = [g |-> 1, t_ab |-> 1, t_b |-> 1, t_0 |-> 1]

\* the segments that follow a gather, as run in the last call
PastGather ==
    {i \in DOMAIN Log :
        /\ Log[i].t = "run"
        /\ Log[i].at > 1
        /\ Program(Log[i].cb)[Log[i].at - 1].op = "gather"}

\* task c returned before position i of the record of the last call
CompletedBy(c, i) ==
    \/ \E j \in 1..(i - 1) : Log[j].t = "run" /\ Log[j].cb = c /\ Log[j].at = Done(c)
    \/ Runs(c) = <<>> /\ c \in DOMAIN coros /\ coros[c] = Done(c)

ReturnedTasks(cs) == {k \in DOMAIN cs : cs[k] \in DOMAIN coros /\ coros[cs[k]] = Done(cs[k])}

\* C14: when a task runs the segment that follows its gather, every
\* gathered task has returned before; and a gather has never counted more
\* completions than gathered tasks have returned.
C14_NotPastGatherEarly ==
    /\ \A i \in PastGather :
           \A c \in Range(Program(Log[i].cb)[Log[i].at - 1].coroutines) :
               CompletedBy(c, i)
    /\ \A g \in DOMAIN gathers :
           gathers[g].num_completed <= Cardinality(ReturnedTasks(gathers[g].coroutines))

C14_Witness ==
    /\ last.op = "raise_event"
    /\ last.ev = Ev("b")
    /\ \E i \in PastGather : Log[i].cb = "g" /\ Log[i].at = 2
    /\ \E j \in DOMAIN Log : Log[j].t = "run" /\ Log[j].cb = "t_ab" /\ Log[j].at = 3
    /\ Runs("t_b") = <<>>
    /\ coros["t_b"] = 2 /\ coros["t_ab"] = 3 /\ coros["g"] = 2
    /\ gathers["g"].num_completed = 3

\* C15: after every call, a task whose gathered tasks have all completed
\* is not suspended in that gather any more.
C15_GatherCompletesAtOnce ==
    \A g \in DOMAIN gathers :
        gathers[g].num_completed = gathers[g].num_total =>
            ~(/\ coros[g] \in DOMAIN Program(g)
              /\ Program(g)[coros[g]].op = "gather")

(***************************************************************************)
(* Claims about resume, checked under SpecWait.                            *)
(***************************************************************************)

\* C16: resume on a task that has returned raises no error, runs no code of
\* any task and registers nothing.
C16_ResumeCompletedNoEffect ==
    (/\ last.op = "resume"
     /\ Log[1].at = Done(Log[1].cb)) =>
        /\ last.exc = "none"
        /\ Len(Log) = 1

\* the descriptor task t yields in its k-th call
Yields(t, k) == Program(t)[k].ev

\* what resume is to register for a descriptor: a subscription to the event,
\* a multisubscription with the predicate, or a multisubscription on the
\* membership in the collection
Expected(t, x) ==
    IF x.tag = "function"
    THEN LogRec("multisubscribe", 0, t, None, <<>>, << [sel |-> Accepts(x), cb |-> t] >>)
    ELSE IF x.tag = "list"
    THEN LogRec("multisubscribe", 0, t, None, <<>>, << [sel |-> x.events, cb |-> t] >>)
    ELSE LogRec("subscribe", 0, t, x, <<>>, <<>>)

\* C17: when a task runs up to a wait_for_event, the next thing recorded of
\* it is the registration of its resumer that the kind of what it waits for
\* calls for.
C17_RegisteredByKind ==
    \A i \in DOMAIN Log :
        (/\ Log[i].t = "run"
         /\ Log[i].at \in DOMAIN Program(Log[i].cb)
         /\ Program(Log[i].cb)[Log[i].at].op = "wait_for_event") =>
            /\ NextOwn(i) <= Len(Log)
            /\ [Log[NextOwn(i)] EXCEPT !.call = 0]
                   = Expected(Log[i].cb, Yields(Log[i].cb, Log[i].at))

(***************************************************************************)
(* Claims about unique events, checked under SpecUnique.                   *)
(***************************************************************************)

\* the unique events the objects hold: keys of the subscriptions, events of
\* the heap, members of the selectors, completion events
Held ==
    {e \in DOMAIN subscriptions : e.tag = "unique"}
    \cup {delayed_events[i].ev : i \in {j \in DOMAIN delayed_events :
                                           delayed_events[j].ev.tag = "unique"}}
    \cup UNION {multisubscriptions[i].sel : i \in DOMAIN multisubscriptions}
    \cup UNION {Range(gathers[g].completion_events) : g \in DOMAIN gathers}

C18_Step ==
    /\ counter' >= counter
    /\ \A e \in Held' \ Held : e.nonce >= counter /\ e.nonce < counter'
    /\ last'.op = "unique_event" =>
           /\ counter' = counter + 1
           /\ last'.log[1].ev.tag = "unique"
           /\ last'.log[1].ev.nonce = counter
           /\ \A e \in Held \cup AppEvents : ~eq(last'.log[1].ev, e)

\* C18: the counter is 0 at first and never decreases; unique_event returns
\* the unique event of the counter's value and increases the counter by
\* one, so that the event equals no application event and no unique event
\* returned or minted before; the unique events that a sleep or a gather
\* mints in a call have the values the counter passes in that call.
C18_UniqueEventsDistinct ==
    /\ counter = 0
    /\ \A e \in Held : FALSE
    /\ [][C18_Step]_vars

C18_Witness ==
    /\ last.op = "unique_event"
    /\ Log[1].ev = UniqueEvent(4)
    /\ counter = 5
    /\ "g_s" \in DOMAIN coros
    /\ gathers["g_s"].completion_events = <<UniqueEvent(0), UniqueEvent(1)>>
    /\ {UniqueEvent(2), UniqueEvent(3)} \subseteq DOMAIN subscriptions

(***************************************************************************)
(* Claims about the heap of delayed events, checked under SpecHandlers.    *)
(***************************************************************************)

\* C19: an update, whatever its handlers add to the heap and whether or
\* not they call update themselves, removes only entries whose deadline is
\* not after the elapsed time, by non-decreasing deadline.
C19_RemovedWhenPassedInOrder ==
    last.op = "update" =>
        /\ \A i \in DOMAIN Popped : Popped[i].tp <= elapsed_time
        /\ \A i, j \in DOMAIN Popped : i < j => Popped[i].tp <= Popped[j].tp

(***************************************************************************)
(* Claims about time points, checked under SpecCompare.                    *)
(***************************************************************************)

\* the relation between two numbers
Holds(x, relation, y) ==
    CASE relation = "==" -> x = y
      [] relation = "!=" -> x # y
      [] relation = "<" -> x < y
      [] relation = ">" -> x > y

\* C20: a comparison of a time point with a value that is no time point
\* raises TypeError; with a time point of another time tracker it raises
\* ValueError and gives no boolean; with a time point of the same time
\* tracker it gives what the relation gives for the two thresholds.
C20_ComparisonChecked ==
    last.op \in Relations =>
        LET self == Log[1].self
            other == Log[1].other
        IN  IF other.kind # "FutureTimePoint" THEN last.exc = "TypeError"
            ELSE IF other.time_tracker # self.time_tracker THEN last.exc = "ValueError"
            ELSE /\ last.exc = "none"
                 /\ Log[1].value = Holds(self.time_point, last.op, other.time_point)

C20_Witness ==
    /\ last.op = ">"
    /\ last.exc = "none"
    /\ Log[1].self = FutureTimePoint(2, 3)
    /\ Log[1].other = FutureTimePoint(2, 1)
    /\ Log[1].value = TRUE

(***************************************************************************)
(* Claims about the clock, checked under SpecClock.                        *)
(***************************************************************************)
\* what one call on the time tracker may do
C21_Step ==
    /\ last'.op = "time_tracker.update" =>
           /\ elapsed_time' = elapsed_time + last'.log[1].time_delta
           /\ last'.log[1].time_delta >= 0 =>
                  \A i \in DOMAIN time_points :
                      has_passed(Machine, time_points[i].time_point) =>
                          has_passed(Machine', time_points'[i].time_point)
    /\ last'.op # "time_tracker.update" => elapsed_time' = elapsed_time
    /\ last'.op = "has_passed" =>
           (last'.log[1].value <=>
                elapsed_time' >= last'.log[1].point.at + last'.log[1].point.time_delta)
    /\ \A i \in DOMAIN time_points' :
           has_passed(Machine', time_points'[i].time_point) <=>
               elapsed_time' >= time_points'[i].at + time_points'[i].time_delta

\* C21: the elapsed time starts at 0 and every update adds its delta to it,
\* so that it is the sum of the deltas; a time point that after(d) returned
\* at elapsed time T has passed exactly when the elapsed time is at least
\* T + d; an update with a delta that is not negative leaves every time
\* point that had passed passed.
C21_ElapsedIsSumOfDeltas == elapsed_time = 0 /\ [][C21_Step]_vars

C21_Witness ==
    /\ last.op = "has_passed"
    /\ last.log[1].value = TRUE
    /\ last.log[1].point = [at |-> 1, time_delta |-> 2, time_point |-> 3]
    /\ elapsed_time = 3
    /\ Len(time_points) = 2
    /\ time_points[2].time_point = 4

(***************************************************************************)
(* Claims about consume_deque, checked under SpecDrain.                    *)
(***************************************************************************)
\* the elements the function was called on, and the ones appended to the
\* deque that is drained
Consumed == Names(SelectSeq(Log, LAMBDA r : r.t = "sub"))

Appended == Names(SelectSeq(Log, LAMBDA r : r.t = "subscribe" /\ r.ev = last.ev))

\* C22: consume_deque(d, f, consume_new_elements=False) calls f on the
\* elements d held when the call began, front to back, each once, and
\* leaves in d the elements f appended, in the order of their appending;
\* with consume_new_elements=True it calls f on the appended elements too,
\* in the order of their appending, and d is empty when it returns.
C22_DrainsSnapshotOrAll ==
    (last.op = "consume_deque" /\ last.exc = "none") =>
        /\ Log[1].cb = "False" =>
               /\ Consumed = Log[1].q
               /\ subscriptions[last.ev] = Appended
        /\ Log[1].cb = "True" =>
               /\ Consumed = Log[1].q \o Appended
               /\ subscriptions[last.ev] = <<>>

C22_Witness ==
    /\ last.op = "consume_deque"
    /\ last.exc = "none"
    /\ last.ev = Ev("42")
    /\ Log[1].cb = "False"
    /\ Log[1].q = <<"chain", "foo", "quux">>
    /\ Consumed = <<"chain", "foo", "quux">>
    /\ subscriptions[last.ev] = <<"quux", "baz">>

(***************************************************************************)
(* Claims about the life of a task, checked under SpecLife.                *)
(***************************************************************************)
\* the resumers of task t in the queues and in the multisubscription list
InQueues(subs, t) ==
    {<<ev, i>> \in (DOMAIN subs) \X (1..MaxCalls) :
        i \in DOMAIN subs[ev] /\ subs[ev][i] = t}

InMultis(multis, t) == {i \in DOMAIN multis : multis[i].cb = t}

Continuations(subs, multis, t) ==
    Cardinality(InQueues(subs, t)) + Cardinality(InMultis(multis, t))

Suspended(pos, t) == t \in DOMAIN pos /\ pos[t] \in DOMAIN Program(t)

Finished(pos, t) == t \in DOMAIN pos /\ pos[t] = Done(t)

\* the positions task t was run to by the last call, in order
RunsTo(log, t) ==
    LET w == SelectSeq(log, LAMBDA r : r.t = "run" /\ r.cb = t)
    IN  [k \in DOMAIN w |-> w[k].at]

\* what a call of the client may do to the tasks
C24_Step ==
    \A t \in DOMAIN coros' :
        /\ Suspended(coros', t) =>
               Continuations(subscriptions', multisubscriptions', t) = 1
        /\ Finished(coros', t) =>
               Continuations(subscriptions', multisubscriptions', t) = 0
        /\ Finished(coros, t) => Finished(coros', t)
        /\ \A i \in DOMAIN RunsTo(last'.log, t) :
               RunsTo(last'.log, t)[i] =
                   (IF t \in DOMAIN coros THEN coros[t] ELSE 0) + i

\* C24: for tasks that only start and the resumers registered by resume
\* drive: between two calls of the client a task that is suspended has
\* exactly one resumer registered (in a queue or in the multisubscription
\* list) and a task that has ended has none; a task that has ended stays
\* ended; and a call runs a task at most once from each of its suspensions.
C24_OneContinuationPerSuspension == [][C24_Step]_vars

(***************************************************************************)
(* Claims about handlers that add delayed events, checked under            *)
(* SpecHandlers.                                                           *)
(***************************************************************************)
\* the entries the handlers added while update ran
AddedEntries ==
    LET w == SelectSeq(Log, LAMBDA r : r.t = "add_delayed_event")
    IN  [k \in DOMAIN w |-> [tp |-> w[k].at, ev |-> w[k].ev]]

\* C25: in update the entry that is popped after an event was raised is
\* the entry of that event, also when a handler has added delayed events
\* meanwhile; hence an entry is raised once at most, and the entries that
\* are gone from the heap are the ones that were raised.
C25_PoppedIsRaised ==
    (last.op = "update" /\ last.exc = "none") =>
        /\ Popped = Fired
        /\ \A k \in DOMAIN Fired :
               Count(Fired, Fired[k]) <=
                   Count(Log[1].q, Fired[k]) + Count(AddedEntries, Fired[k])
        /\ SameBag(delayed_events \o Fired, Log[1].q \o AddedEntries)

(***************************************************************************)
(* Claims about subscribers that raise an error, checked under SpecFail    *)
(* and SpecFailPass.                                                       *)
(***************************************************************************)
\* the record of the raise_event that an error has left: the last begun
Failed(log) == log[CHOOSE i \in DOMAIN log :
                       /\ log[i].t = "begin"
                       /\ \A j \in DOMAIN log : log[j].t = "begin" => j <= i]

\* the subscribers the failed raise_event has taken from the queue
FailedCalls(log) ==
    Names(SelectSeq(log, LAMBDA r : r.t = "sub" /\ r.call = Failed(log).call))

\* the subscribers called, from a queue or from the multisubscription list
Called(log) == SelectSeq(log, LAMBDA r : r.t \in {"sub", "multi"})

\* the error was raised by a subscriber taken from the queue
FailedInQueue(l) ==
    /\ l.op = "update"
    /\ l.exc = "Error"
    /\ Called(l.log)[Len(Called(l.log))].t = "sub"

\* what an update in which a queued subscriber raises an error leaves, and
\* what the update after it does
C26_Step ==
    /\ FailedInQueue(last') =>
           /\ Len(Fired') = Len(Popped') + 1
           /\ delayed_events' # <<>>
           /\ delayed_events'[1] = Fired'[Len(Fired')]
           /\ SameBag(delayed_events' \o Popped', last'.log[1].q)
           /\ Failed(last'.log).ev = Fired'[Len(Fired')].ev
           /\ Failed(last'.log).ev \in DOMAIN subscriptions'
           /\ Failed(last'.log).q =
                  FailedCalls(last'.log) \o subscriptions'[Failed(last'.log).ev]
           /\ FailedCalls(last'.log)[Len(FailedCalls(last'.log))] = "fail"
           /\ multisubscriptions' = Failed(last'.log).ms
    /\ (FailedInQueue(last) /\ last'.op = "update") =>
           /\ Fired' # <<>>
           /\ Fired'[1] = delayed_events[1]

\* C26: when a subscriber taken from the queue of a due delayed event
\* raises an error, update raises that error; the entry of the event is
\* still the first of the heap, and the update after it raises the event
\* again; the subscribers called so far, the failing one too, are gone from
\* the queue, and the ones behind it are still queued, in order.
C26_ErrorKeepsEntry == [][C26_Step]_vars

C26_Witness ==
    /\ FailedInQueue(last)
    /\ FailedCalls(Log) = <<"foo", "fail">>
    /\ subscriptions = (Ev("a") :> <<"foo">>)
    /\ Len(delayed_events) = 2
    /\ delayed_events[1].tp = 1
    /\ elapsed_time = 2

\* the multisubscription list without the first k entries that accept the
\* event: the entries a pass has not called when it has made k calls
RECURSIVE Uncalled(_, _, _)
Uncalled(ms, event, k) ==
    IF ms = <<>> THEN <<>>
    ELSE IF k > 0 /\ event \in Head(ms).sel THEN Uncalled(Tail(ms), event, k - 1)
    ELSE <<Head(ms)>> \o Uncalled(Tail(ms), event, k)

\* the error was raised by a subscriber taken from the multisubscription list
FailedInPass(l) ==
    /\ l.op \in {"raise_event", "update"}
    /\ l.exc = "Error"
    /\ Called(l.log)[Len(Called(l.log))].t = "multi"

\* C27: when a multisubscriber raises an error during raise_event, the
\* other multisubscriptions are all still registered afterwards: the
\* entries of the pass whose selector did not accept the event and the
\* entries the pass had not come to.
C27_NoMultisubscriptionLost ==
    FailedInPass(last) =>
        IsSubseq(Uncalled(Failed(Log).ms, Failed(Log).ev,
                          Len(MultiCalls(Failed(Log).call))),
                 multisubscriptions)

(***************************************************************************)
(* Claims about gather of tasks that do not suspend, checked under         *)
(* SpecGatherNow.                                                          *)
(***************************************************************************)
\* the coroutines of the gather call of task c all return when started
AllReturnAtOnce(c) ==
    \A i \in DOMAIN gathers[c].coroutines : Program(gathers[c].coroutines[i]) = <<>>

\* what is left registered of the gather call of task c
LeftBehind(c) ==
    {e \in DOMAIN subscriptions :
        \E i \in DOMAIN gathers[c].completion_events :
            gathers[c].completion_events[i] = e}
    \cup {e \in DOMAIN subscriptions :
             \E i \in DOMAIN subscriptions[e] :
                 subscriptions[e][i] = IncreaseCompleted(c)}
    \cup {i \in DOMAIN multisubscriptions :
             \E j \in DOMAIN gathers[c].completion_events :
                 gathers[c].completion_events[j] \in multisubscriptions[i].sel}

\* C28: a gather of no coroutine, or of coroutines that all return without
\* being suspended, does not suspend the task that awaits it: the start
\* that reaches the gather runs the task on to what follows the await, and
\* nothing of the gather is left in the queues or in the multisubscription
\* list.
C28_GatherOfNothingGoesOn ==
    \A i \in DOMAIN Log :
        (last.op = "start" /\ Log[i].t = "gather" /\ AllReturnAtOnce(Log[i].cb)) =>
            /\ last.exc = "none"
            /\ gathers[Log[i].cb].num_completed = gathers[Log[i].cb].num_total
            /\ \A j \in DOMAIN Log :
                   Log[j].t = "multisubscribe" => Log[j].cb # Log[i].cb
            /\ \E j \in DOMAIN Log :
                   /\ j > i
                   /\ Log[j] = TimeRec("run", Log[i].cb, None, <<>>, Log[i].at + 1)
            /\ coros[Log[i].cb] = Log[i].at + 1
            /\ LeftBehind(Log[i].cb) = {}

C28_Witness ==
    /\ last.op = "start"
    /\ \E i \in DOMAIN Log : Log[i].t = "gather" /\ Log[i].cb = "g_0"
    /\ gathers["g_0"].num_completed = 2
    /\ gathers["g_0"].completion_events = <<UniqueEvent(0), UniqueEvent(1)>>
    /\ coros = ("g_0" :> 2 @@ "t_1" :> 1 @@ "t_2" :> 1)
    /\ subscriptions = (Ev("b") :> <<"g_0">>)
    /\ multisubscriptions = <<>>
    /\ counter = 2

(***************************************************************************)
(* Claims about the end of a drain, checked under SpecDrain.               *)
(***************************************************************************)
\* the queue of its event as the first raise_event of the record found it
QueueAtBegin == Log[At("begin", 0)].q

\* C29: raise_event(e) returns even when every subscriber it calls
\* subscribes to e again: it calls at most as many subscribers as the queue
\* of e held when the call began.  consume_deque with
\* consume_new_elements=True returns only when the elements stop appending:
\* it returns exactly when it never reaches an element that appends itself
\* each time it is called.
C29_ExclusiveDrainIsBounded ==
    /\ last.op = "raise_event" =>
           /\ last.exc = "none"
           /\ Len(Consumed) <= Len(QueueAtBegin)
    /\ (last.op = "consume_deque" /\ Log[1].cb = "False") =>
           /\ last.exc = "none"
           /\ Len(Consumed) <= Len(Log[1].q)
    /\ (last.op = "consume_deque" /\ Log[1].cb = "True") =>
           (last.exc = "none" <=>
                \A i \in DOMAIN Consumed : Consumed[i] # "again")

C29_Witness ==
    /\ last.op = "raise_event"
    /\ last.exc = "none"
    /\ QueueAtBegin = <<"again", "again">>
    /\ Consumed = <<"again", "again">>
    /\ Appended = <<"again", "again">>
    /\ subscriptions[last.ev] = <<"again", "again">>

(***************************************************************************)
(* Claims about what raise_event leaves alone, checked under SpecBus.      *)
(***************************************************************************)
\* the subscribers a call has invoked, from a queue or from the pass
Invoked(log) == SelectSeq(log, LAMBDA r : r.t \in {"sub", "multi"})

\* every subscriber the call has invoked registers nothing
RegistersNothing(log) == \A i \in DOMAIN Invoked(log) : Plain(Invoked(log)[i].cb)

\* C30: raise_event(e) whose callbacks register nothing leaves the queue of
\* every event other than e as it was and keeps the multisubscriptions
\* whose selector is false for e, the same entries in the same order; when
\* e has no subscriber and no multisubscription selects it, the call
\* changes neither the queues nor the multisubscription list and invokes
\* nothing.
C30_Step ==
    (last'.op = "raise_event" /\ RegistersNothing(last'.log)) =>
        /\ last'.exc = "none"
        /\ (DOMAIN subscriptions') \ {last'.ev} = (DOMAIN subscriptions) \ {last'.ev}
        /\ \A e \in (DOMAIN subscriptions) \ {last'.ev} :
               subscriptions'[e] = subscriptions[e]
        /\ NonMatching(multisubscriptions', last'.ev) =
               NonMatching(multisubscriptions, last'.ev)
        /\ (/\ last'.ev \notin DOMAIN subscriptions
            /\ Matching(multisubscriptions, last'.ev) = <<>>) =>
               /\ subscriptions' = subscriptions
               /\ multisubscriptions' = multisubscriptions
               /\ Invoked(last'.log) = <<>>

C30_OthersUntouched == [][C30_Step]_vars

C30_Witness ==
    /\ last.op = "raise_event"
    /\ last.ev = Ev("a")
    /\ Names(Invoked(Log)) = <<"foo">>
    /\ subscriptions = (Ev("b") :> <<"bar">>)
    /\ Len(multisubscriptions) = 1
    /\ multisubscriptions[1].sel = {Ev("b")}
    /\ multisubscriptions[1].cb = "foo"

====
